---- MODULE Spec2Model ----
(***************************************************************************)
(* The browser-driven extraction-and-inference workers of saikothasan/web: *)
(*   - the action worker of src/src/index.ts (analyze_image,               *)
(*     summarize_text, extract_html),                                      *)
(*   - the /analyze-link route of src/unnamed/part_000,                    *)
(*   - the fixed-URL structured-extraction worker of src/unnamed/part_000  *)
(*     with its reply shaper getLLMResult.                                 *)
(* Strings are sequences of one-character strings.  Every remote call      *)
(* (browser rendering, model service) is one step whose outcome, success   *)
(* or a thrown error, is chosen by the environment.                        *)
(***************************************************************************)
EXTENDS Integers, Sequences, FiniteSets, TLC

VARIABLES
    req,       \* req[r]: the HTTP request r as the client sent it
    pc,        \* pc[r]: the await the handler of r is suspended at
    browser,   \* browser[r]: the session handle held by the handler (0: none)
    page,      \* page[r]: index.ts `page` (0: null, else the session it belongs to)
    artifact,  \* artifact[r]: the extracted content held by the handler
    data,      \* data[r]: index.ts `data`, the payload of the success response
               \*          (/feedback: its `feedbackData`)
    pending,   \* pending[r]: a response computed in a catch, waiting for finally
    resp,      \* resp[r]: what the handler gave back to the runtime
    log,       \* log[r]: the remote calls the handler of r issued, in order
    sessions,  \* the rendering service: every session ever launched
    doc,       \* a page text handed to the prompt builders
    built,     \* the prompt a handler built from doc
    reply,     \* a model reply as the model service composes it
    shaped,    \* what getLLMResult made of reply
    kv,        \* FEEDBACK_KV: the value stored under each key
    writes,    \* FEEDBACK_KV: the puts it applied, in the order it applied them
    clock      \* the time new Date() reads

pipeVars ==
    <<req, pc, browser, page, artifact, data, pending, resp, log, sessions>>
textVars == <<doc, built>>
shapeVars == <<reply, shaped>>
feedVars == <<kv, writes, clock>>
vars ==
    <<req, pc, browser, page, artifact, data, pending, resp, log, sessions,
      doc, built, reply, shaped, kv, writes, clock>>

----------------------------------------------------------------------------
(* Bounds of the model. *)

NumReqs == 1

\* Requests handled at the same time.
NumConc == 2

\* Feedback submissions handled at the same time.
NumFeedback == 2

MaxChunks == 5

Slack == 2

----------------------------------------------------------------------------
(* Strings. *)

Absent == "<absent>"

Min(a, b) == IF a < b THEN a ELSE b

Max(a, b) == IF a < b THEN b ELSE a

\* String.prototype.substring(a, b): both ends clamped to [0, length] and
\* swapped when a > b; the characters at 0-based positions lo .. hi-1.
Substring(s, a, b) ==
    LET ca == Max(0, Min(a, Len(s)))
        cb == Max(0, Min(b, Len(s)))
        lo == Min(ca, cb)
        hi == Max(ca, cb)
    IN  SubSeq(s, lo + 1, hi)

\* x || y on strings: the empty string and undefined are falsy.
Falsy(s) == s = Absent \/ s = ""

----------------------------------------------------------------------------
(* Prompt construction: what each handler embeds of the page text. *)

SummaryLimit == 8000

LinkLimit == 10000

SummaryScaffold ==
    "Please provide a concise summary of the following text extracted from a webpage:\n\n---\n\n"

LinkScaffold ==
    "Summarize the following text from a webpage. Focus on key information and main points. If the text is too short or irrelevant, state that.\n\nText:\n"

ExtractScaffold ==
    "You are a sophisticated web scraper. [schema] [goal] Text extracted from the webpage: "

Ellipsis == <<".", ".", ".">>

\* index.ts, summarize_text: the template literal around
\* pageText.substring(0, 8000).
SummarizationPrompt(pageText) ==
    <<SummaryScaffold>> \o Substring(pageText, 0, SummaryLimit)

\* /analyze-link: pageContent is cut to 10000 characters plus "..." when it is
\* longer, and left alone otherwise.
LinkContent(pageContent) ==
    IF Len(pageContent) > LinkLimit
    THEN Substring(pageContent, 0, LinkLimit) \o Ellipsis
    ELSE pageContent

LinkPrompt(pageContent) == <<LinkScaffold>> \o LinkContent(pageContent)

\* The structured-extraction worker: renderedText is embedded as it is.
ExtractPrompt(renderedText) == <<ExtractScaffold>> \o renderedText

----------------------------------------------------------------------------
(* Reply shaping: getLLMResult's regular expression and JSON.parse. *)

Undefined == [t |-> "undefined"]

JsonNumber(n) == [t |-> "number", v |-> n]

JsonObject == [t |-> "object"]

\* The backtick character (the module's strings cannot hold one).
Backtick == "BACKTICK"

\* \s of the regular expression; the model's alphabet has no other blanks.
IsSpace(c) == c \in {" ", "\n"}

AllSpace(t, from, to) == \A k \in from .. (to - 1) : IsSpace(t[k])

FenceAt(t, i) ==
    /\ i >= 1
    /\ i + 2 <= Len(t)
    /\ t[i] = Backtick /\ t[i + 1] = Backtick /\ t[i + 2] = Backtick

JsonTagAt(t, i) ==
    /\ i + 3 <= Len(t)
    /\ t[i] = "j" /\ t[i + 1] = "s" /\ t[i + 2] = "o" /\ t[i + 3] = "n"

\* \s*``` matches at position e.
ClosesAt(t, e) ==
    \E p \in e .. Len(t) : AllSpace(t, e, p) /\ FenceAt(t, p)

\* The ways /```(?:json)?\s*([\s\S]*?)\s*```/ matches with its first backtick
\* at i: tag is the length (?:json)? consumed, ws the length of the first \s*,
\* and the group spans the positions i+3+tag+ws .. e-1.
MatchesAt(t, i) ==
    IF ~FenceAt(t, i) THEN {}
    ELSE { m \in [tag : {0, 4}, ws : 0 .. Len(t), e : (i + 3) .. (Len(t) + 1)] :
             /\ m.tag = 4 => JsonTagAt(t, i + 3)
             /\ i + 3 + m.tag + m.ws <= Len(t) + 1
             /\ AllSpace(t, i + 3 + m.tag, i + 3 + m.tag + m.ws)
             /\ m.e >= i + 3 + m.tag + m.ws
             /\ ClosesAt(t, m.e) }

\* The order a greedy group ([\s\S]*) would be tried in.
GreedyGroupBefore(a, b) ==
    \/ a.tag > b.tag
    \/ a.tag = b.tag /\ a.ws > b.ws
    \/ a.tag = b.tag /\ a.ws = b.ws /\ a.e > b.e

\* The order in which the backtracking matcher tries them: the greedy
\* (?:json)? and \s* take as much as they can first, the lazy group as
\* little as it can.
TriedBefore(a, b) ==
    \/ a.tag > b.tag
    \/ a.tag = b.tag /\ a.ws > b.ws
    \/ a.tag = b.tag /\ a.ws = b.ws /\ a.e < b.e

FirstMatchAt(t, i) ==
    CHOOSE m \in MatchesAt(t, i) :
        \A o \in MatchesAt(t, i) : o = m \/ TriedBefore(m, o)

\* text.match(re): the match at the leftmost position that has one, or null.
MatchStarts(t) == { i \in 1 .. Len(t) : MatchesAt(t, i) # {} }

HasMatch(t) == MatchStarts(t) # {}

Group1(t) ==
    LET i == CHOOSE j \in MatchStarts(t) : \A k \in MatchStarts(t) : j <= k
        m == FirstMatchAt(t, i)
    IN  SubSeq(t, i + 3 + m.tag + m.ws, m.e - 1)

\* (text.match(re) || [null, text])[1]
Candidate(text) == IF HasMatch(text) THEN Group1(text) ELSE text

\* JSON.parse over the model's alphabet: backtick, j s o n 1 x { } and blanks: the only
\* JSON texts are a number written with the digit 1 and the empty object,
\* each with JSON white space around it (and inside the braces).
IsJsonWs(c) == c \in {" ", "\n"}

RECURSIVE StripLeft(_)
StripLeft(t) ==
    IF t # <<>> /\ IsJsonWs(Head(t)) THEN StripLeft(Tail(t)) ELSE t

RECURSIVE StripRight(_)
StripRight(t) ==
    IF t # <<>> /\ IsJsonWs(t[Len(t)])
    THEN StripRight(SubSeq(t, 1, Len(t) - 1))
    ELSE t

JsonCore(t) == StripRight(StripLeft(t))

IsDigits(t) == t # <<>> /\ \A k \in 1 .. Len(t) : t[k] = "1"

IsEmptyObject(t) ==
    /\ Len(t) >= 2
    /\ t[1] = "{" /\ t[Len(t)] = "}"
    /\ \A k \in 2 .. (Len(t) - 1) : IsJsonWs(t[k])

RECURSIVE DigitsValue(_)
DigitsValue(t) ==
    IF t = <<>> THEN 0 ELSE 10 * DigitsValue(SubSeq(t, 1, Len(t) - 1)) + 1

\* JSON.parse throws a SyntaxError on anything else.
JsonParses(t) == IsDigits(JsonCore(t)) \/ IsEmptyObject(JsonCore(t))

JsonParse(t) ==
    IF IsDigits(JsonCore(t)) THEN JsonNumber(DigitsValue(JsonCore(t)))
    ELSE JsonObject

\* getLLMResult after a successful fetch: data.result.response || '' is the
\* text; the try returns the parsed candidate, and the catch only logs, so the
\* function falls off its end and returns undefined.
ShapeReply(response) ==
    LET text == response
        value == Candidate(text)
    IN  IF JsonParses(value) THEN JsonParse(value) ELSE Undefined

----------------------------------------------------------------------------
(* Requests, and the validation in front of each handler. *)

UrlA == "https://a.example/"

UrlB == "https://b.example/"

NotAUrl == "not a url"

\* new URL(x) succeeds / z.string().url() passes.
IsUrl(u) == u \in {UrlA, UrlB}

NoViewport == [present |-> FALSE, width |-> 0, height |-> 0]

Viewport(w, h) == [present |-> TRUE, width |-> w, height |-> h]

NoBody ==
    [json |-> FALSE, url |-> Absent, action |-> Absent, prompt |-> Absent,
     model |-> Absent, viewport |-> NoViewport, waitForSelector |-> Absent]

\* The three action names of RequestSchema.
Actions == {"analyze_image", "summarize_text", "extract_html"}

DefaultModel == "@cf/llava-1.5-7b-hf"

TextModel == "@cf/meta/llama-2-7b-chat-int8"

LinkModel == "@cf/google/gemma-3-12b-it"

ExtractModel == "@hf/thebloke/deepseek-coder-6.7b-instruct-awq"

TargetUrl == "https://labs.apnic.net/"

\* RequestSchema.safeParse(body), as zod evaluates it.  A field of the wrong
\* type (a missing url, an action outside the enum) aborts the object, and
\* the refinement of an aborted object is not run; a failed check on a value
\* of the right type (an ill-formed url, a non-positive dimension) leaves
\* the object dirty, and the refinement still runs.
TypeIssues(body) ==
    (IF body.url = Absent THEN {"url"} ELSE {})
    \cup (IF body.action \notin Actions THEN {"action"} ELSE {})

CheckIssues(body) ==
    (IF body.url # Absent /\ ~IsUrl(body.url) THEN {"url"} ELSE {})
    \cup (IF body.viewport.present
             /\ (body.viewport.width <= 0 \/ body.viewport.height <= 0)
          THEN {"renderOptions"} ELSE {})

\* A schema without the .refine on prompt.
RefineNever(body) == {}

RefineIssues(body) ==
    IF body.action = "analyze_image" /\ Falsy(body.prompt)
    THEN {"prompt"} ELSE {}

\* The keys of validationResult.error.flatten().fieldErrors.
FieldErrors(body) ==
    TypeIssues(body) \cup CheckIssues(body)
    \cup (IF TypeIssues(body) = {} THEN RefineIssues(body) ELSE {})

\* validationResult.data.model: .optional().default('@cf/llava-1.5-7b-hf').
ParsedModel(body) == IF body.model = Absent THEN DefaultModel ELSE body.model

\* The requests the clients send.  worker names the deployed module:
\* "index" is src/src/index.ts, "assistant" the first export of part_000,
\* "scraper" its second export.
IndexBodies ==
    { b \in [json : {TRUE},
             url : {UrlA, NotAUrl, Absent},
             action : Actions \cup {"delete_all"},
             prompt : {"describe", Absent},
             model : {"@cf/custom", Absent},
             viewport : {NoViewport, Viewport(800, 600), Viewport(0, 600)},
             waitForSelector : {"#main", Absent}] :
        \* render options come as: none, viewport and selector, a bad viewport
        /\ (b.waitForSelector # Absent) <=> (b.viewport = Viewport(800, 600))
        /\ b.action \notin {"analyze_image"} => b.prompt = Absent }

LinkBodies ==
    { [NoBody EXCEPT !.json = TRUE, !.url = u] : u \in {UrlA, NotAUrl, Absent} }

Requests ==
    { [worker |-> "index", method |-> "POST", path |-> "/", body |-> b] :
        b \in IndexBodies \cup {NoBody} }
    \cup { [worker |-> "index", method |-> "GET", path |-> "/", body |-> NoBody] }
    \cup { [worker |-> "assistant", method |-> "POST", path |-> "/analyze-link",
            body |-> b] : b \in LinkBodies \cup {NoBody} }
    \cup { [worker |-> "assistant", method |-> "GET", path |-> "/analyze-link",
            body |-> NoBody] }
    \cup { [worker |-> "scraper", method |-> "GET", path |-> p, body |-> NoBody] :
            p \in {"/", "/favicon.ico"} }

\* The url a handler navigates to.
NavUrl(q) == IF q.worker = "scraper" THEN TargetUrl ELSE q.body.url

----------------------------------------------------------------------------
(* The world outside: pages, and the replies a model can give. *)

PageAt(u) ==
    IF u = UrlB
    THEN [html |-> <<"<", "b", ">">>, text |-> <<"b", "b">>, shot |-> <<2>>]
    ELSE IF u = TargetUrl
    THEN [html |-> <<"<", "p", ">">>, text |-> <<"p">>, shot |-> <<3>>]
    ELSE [html |-> <<"<", "a", ">">>, text |-> <<"a", "b", "a">>, shot |-> <<1>>]

FencedReply ==
    <<"x", " ", Backtick, Backtick, Backtick, "j", "s", "o", "n", "\n",
      "1", "1", "\n", Backtick, Backtick, Backtick, " ", "x">>

BareReply == <<"{", "}">>

ProseReply == <<"x", " ", "x">>

SampleReplies == {FencedReply, BareReply, ProseReply}

----------------------------------------------------------------------------
(* Values the handlers hold and return. *)

NoArtifact == [kind |-> "none"]

NoData == [kind |-> "none"]

NoResp == [kind |-> "none"]

\* A Response the handler returned.
Response(status, body) == [kind |-> "response", status |-> status, body |-> body]

\* An exception that left fetch(): the handler returned no Response.
Escaped(error) == [kind |-> "exception", error |-> error]

Call(op, ok, arg) == [op |-> op, ok |-> ok, arg |-> arg]

NoArg == [none |-> TRUE]

\* FEEDBACK_KV with nothing stored.
NoRecords == [k \in {} |-> Absent]

\* JSON null.
Null == "<null>"

\* A store with one key for all messages.
FeedbackKeyShared(messageId) == <<"feedback:", "">>

\* `feedback:${messageId}`
FeedbackKey(messageId) == <<"feedback:", messageId>>

\* feedbackData of /feedback; the store keeps its JSON text, which spells
\* these three fields.
FeedbackData(b, now) ==
    [feedbackType |-> b.feedbackType,
     comment |-> IF Falsy(b.comment) THEN Null ELSE b.comment,
     timestamp |-> now]

\* The catch of index.ts.
InternalError(message) ==
    Response(500, [success |-> FALSE,
                   error |-> <<"An internal server error occurred: ", message>>])

\* The validation failure of index.ts.
BadRequest(body) ==
    Response(400, [success |-> FALSE, error |-> "Invalid request body.",
                   details |-> FieldErrors(body)])

\* A metadata.modelUsed that names the model of the request whatever the
\* action ran.
ModelRequested(d, model) == model

\* metadata.modelUsed: data.modelUsed || model.
ModelUsed(d, model) ==
    IF "modelUsed" \in DOMAIN d /\ ~Falsy(d.modelUsed) THEN d.modelUsed ELSE model

\* The success response of index.ts.
Success(q, d) ==
    Response(200, [success |-> TRUE, data |-> d,
                   metadata |-> [url |-> q.body.url, action |-> q.body.action,
                                 modelUsed |-> ModelUsed(d, ParsedModel(q.body))]])

\* The outer catch of /analyze-link.
LinkFailed(message) ==
    Response(500, [error |-> "Failed to analyze link", details |-> message])

\* The catch of /feedback.
FeedbackFailed(message) ==
    Response(500, [success |-> FALSE, error |-> "Failed to submit feedback",
                   details |-> message])

\* The inner catch of /analyze-link, around goto and $eval.
LoadFailed(message) ==
    Response(500, [error |-> <<"Failed to load or extract content from URL: ",
                              message>>])

\* Whether index.ts's renderOptions ask for the optional steps.
WantsViewport(q) == q.worker = "index" /\ q.body.viewport.present

WantsSelector(q) == q.worker = "index" /\ ~Falsy(q.body.waitForSelector)

\* A switch in which extract_html too runs into a model call.
InfersEveryAction(q) == TRUE

\* Whether the handler calls a model after extraction.
Infers(q) == q.worker # "index" \/ q.body.action # "extract_html"

----------------------------------------------------------------------------
(* The handlers, one step per awaited remote call. *)

Logged(r, call) == log' = [log EXCEPT ![r] = Append(@, call)]

\* Where an error thrown by the await at `stage` goes.  index.ts catches
\* everything in its one catch and returns, and so does /feedback;
\* /analyze-link catches goto and
\* $eval inside (its finally then closes the browser) and the rest outside;
\* the scraper catches nothing.
\* An inner catch of /analyze-link that returns with no finally behind it.
ThrewPastFinally(r, stage, message) ==
    /\ resp' = [resp EXCEPT ![r] =
                   IF req[r].worker = "index" THEN InternalError(message)
                   ELSE IF req[r].worker = "scraper" THEN Escaped(message)
                   ELSE IF stage \in {"goto", "extract"} THEN LoadFailed(message)
                   ELSE LinkFailed(message)]
    /\ pc' = [pc EXCEPT ![r] = "done"]
    /\ UNCHANGED pending

Threw(r, stage, message) ==
    IF req[r].worker = "index"
    THEN /\ resp' = [resp EXCEPT ![r] = InternalError(message)]
         /\ pc' = [pc EXCEPT ![r] = "done"]
         /\ UNCHANGED pending
    ELSE IF req[r].worker = "assistant" /\ req[r].path = "/feedback"
    THEN /\ resp' = [resp EXCEPT ![r] = FeedbackFailed(message)]
         /\ pc' = [pc EXCEPT ![r] = "done"]
         /\ UNCHANGED pending
    ELSE IF req[r].worker = "assistant"
    THEN IF stage \in {"goto", "extract"}
         THEN /\ pending' = [pending EXCEPT ![r] = LoadFailed(message)]
              /\ pc' = [pc EXCEPT ![r] = "close"]
              /\ UNCHANGED resp
         ELSE /\ resp' = [resp EXCEPT ![r] = LinkFailed(message)]
              /\ pc' = [pc EXCEPT ![r] = "done"]
              /\ UNCHANGED pending
    ELSE /\ resp' = [resp EXCEPT ![r] = Escaped(message)]
         /\ pc' = [pc EXCEPT ![r] = "done"]
         /\ UNCHANGED pending

Returned(r, response) ==
    /\ resp' = [resp EXCEPT ![r] = response]
    /\ pc' = [pc EXCEPT ![r] = "done"]
    /\ UNCHANGED pending

\* A launchAndNavigate that navigates first and sets the viewport afterwards.
GoesViewportLate(r, stage) ==
    LET to == IF stage = "setViewport" THEN "goto"
              ELSE IF pc[r] = "goto" /\ WantsViewport(req[r]) THEN "setViewport"
              ELSE IF pc[r] = "setViewport"
              THEN (IF WantsSelector(req[r]) THEN "waitForSelector" ELSE "extract")
              ELSE stage
    IN /\ pc' = [pc EXCEPT ![r] = to]
       /\ UNCHANGED <<resp, pending>>

\* The handler goes on to its next await.
Goes(r, stage) ==
    /\ pc' = [pc EXCEPT ![r] = stage]
    /\ UNCHANGED <<resp, pending>>

\* index.ts: the method check, request.json(), safeParse.
ReceiveIndex(r) ==
    LET q == req[r] IN
    IF q.method # "POST"
    THEN Returned(r, Response(405, "Method Not Allowed. Please use POST."))
    ELSE IF ~q.body.json
    THEN Threw(r, "json", "Unexpected token")
    ELSE IF FieldErrors(q.body) # {}
    THEN Returned(r, BadRequest(q.body))
    ELSE Goes(r, "launch")

\* part_000, /feedback: request.json(), the two required fields, then
\* feedbackData with the time of this moment.
ReceiveFeedback(r) ==
    LET b == req[r].body IN
    IF ~b.json
    THEN Threw(r, "json", "Unexpected token") /\ UNCHANGED <<data, clock>>
    ELSE IF Falsy(b.messageId) \/ Falsy(b.feedbackType)
    THEN /\ Returned(r, Response(400,
                [error |-> "messageId and feedbackType are required"]))
         /\ UNCHANGED <<data, clock>>
    ELSE \E now \in {clock, clock + 1} :
            /\ clock' = now
            /\ data' = [data EXCEPT ![r] = FeedbackData(b, now)]
            /\ Goes(r, "put")

\* part_000, /analyze-link: request.json(), the url checks.
ReceiveLink(r) ==
    LET q == req[r] IN
    IF ~q.body.json
    THEN Threw(r, "json", "Unexpected token")
    ELSE IF Falsy(q.body.url)
    THEN Returned(r, Response(400, [error |-> "URL to analyze is required"]))
    ELSE IF ~IsUrl(q.body.url)
    THEN Returned(r, Response(400, [error |-> "Invalid URL format"]))
    ELSE Goes(r, "launch")

\* part_000, first export: routing.
ReceiveAssistant(r) ==
    LET q == req[r] IN
    IF q.path = "/feedback" /\ q.method = "POST"
    THEN ReceiveFeedback(r)
    ELSE IF q.path = "/analyze-link" /\ q.method = "POST"
    THEN ReceiveLink(r) /\ UNCHANGED <<data, clock>>
    ELSE Returned(r, Response(404, "Not Found")) /\ UNCHANGED <<data, clock>>

\* part_000, second export: only the path is looked at.
ReceiveScraper(r) ==
    IF req[r].path # "/"
    THEN Returned(r, Response(200, "Not found"))
    ELSE Goes(r, "launch")

Receive(r) ==
    /\ pc[r] = "idle"
    /\ IF req[r].worker = "index"
       THEN ReceiveIndex(r) /\ UNCHANGED <<data, clock>>
       ELSE IF req[r].worker = "assistant" THEN ReceiveAssistant(r)
       ELSE ReceiveScraper(r) /\ UNCHANGED <<data, clock>>
    /\ UNCHANGED <<req, browser, page, artifact, log, sessions>>
    /\ UNCHANGED <<textVars, shapeVars, kv, writes>>

\* puppeteer.launch(binding): a new session of the rendering service, which
\* keeps what its page has loaded.
Launch(r) ==
    /\ pc[r] = "launch"
    /\ \E ok \in BOOLEAN :
        /\ Logged(r, Call("launch", ok, NoArg))
        /\ IF ok
           THEN /\ sessions' = Append(sessions,
                                      [owner |-> r, open |-> TRUE, closes |-> 0,
                                       url |-> Absent])
                /\ browser' = [browser EXCEPT ![r] = Len(sessions) + 1]
                /\ Goes(r, "newPage")
           ELSE /\ UNCHANGED <<sessions, browser>>
                /\ Threw(r, "launch", "launch failed")
    /\ UNCHANGED <<req, page, artifact, data>>
    /\ UNCHANGED <<textVars, shapeVars, feedVars>>

\* browser.newPage()
NewPage(r) ==
    /\ pc[r] = "newPage"
    /\ \E ok \in BOOLEAN :
        /\ Logged(r, Call("newPage", ok, [session |-> browser[r]]))
        /\ IF ok
           THEN Goes(r, IF WantsViewport(req[r]) THEN "setViewport" ELSE "goto")
           ELSE Threw(r, "newPage", "newPage failed")
    /\ UNCHANGED <<req, browser, page, artifact, data, sessions>>
    /\ UNCHANGED <<textVars, shapeVars, feedVars>>

\* page.setViewport(options.viewport), index.ts only
SetViewport(r) ==
    /\ pc[r] = "setViewport"
    /\ \E ok \in BOOLEAN :
        /\ Logged(r, Call("setViewport", ok, [session |-> browser[r]]))
        /\ IF ok
           THEN Goes(r, "goto")
           ELSE Threw(r, "setViewport", "setViewport failed")
    /\ UNCHANGED <<req, browser, page, artifact, data, sessions>>
    /\ UNCHANGED <<textVars, shapeVars, feedVars>>

\* page.goto(url, ...).  In index.ts launchAndNavigate returns the page, and
\* `page` is assigned, once its last await is through.
Goto(r) ==
    /\ pc[r] = "goto"
    /\ \E ok \in BOOLEAN :
        /\ Logged(r, Call("goto", ok,
                          [session |-> browser[r], url |-> NavUrl(req[r])]))
        /\ IF ok
           THEN /\ Goes(r, IF WantsSelector(req[r]) THEN "waitForSelector"
                           ELSE "extract")
                /\ page' = IF req[r].worker = "index" /\ ~WantsSelector(req[r])
                           THEN [page EXCEPT ![r] = browser[r]] ELSE page
                /\ sessions' = [sessions EXCEPT ![browser[r]].url =
                                                   NavUrl(req[r])]
           ELSE /\ Threw(r, "goto", "Navigation timeout")
                /\ UNCHANGED <<page, sessions>>
    /\ UNCHANGED <<req, browser, artifact, data>>
    /\ UNCHANGED <<textVars, shapeVars, feedVars>>

\* page.waitForSelector(selector, {timeout: 10000}), index.ts only: the
\* selector shows up, or the wait times out and throws.
WaitForSelector(r) ==
    /\ pc[r] = "waitForSelector"
    /\ \E ok \in BOOLEAN :
        /\ Logged(r, Call("waitForSelector", ok, [session |-> browser[r]]))
        /\ IF ok
           THEN /\ Goes(r, "extract")
                /\ page' = [page EXCEPT ![r] = browser[r]]
           ELSE /\ Threw(r, "waitForSelector", "Waiting for selector failed")
                /\ UNCHANGED page
    /\ UNCHANGED <<req, browser, artifact, data, sessions>>
    /\ UNCHANGED <<textVars, shapeVars, feedVars>>

\* What the extraction call of the handler reads off the page p.
Extracted(q, p) ==
    IF q.worker = "index" /\ q.body.action = "analyze_image"
    THEN [kind |-> "image", call |-> "screenshot", content |-> p.shot]
    ELSE IF q.worker = "index" /\ q.body.action = "extract_html"
    THEN [kind |-> "html", call |-> "content", content |-> p.html]
    ELSE IF q.worker = "assistant"
    THEN [kind |-> "text", call |-> "$eval", content |-> p.text]
    ELSE [kind |-> "text", call |-> "evaluate", content |-> p.text]

\* page.screenshot / page.evaluate / page.content / page.$eval, on the page
\* of the handler's browser.  extract_html
\* sets data = { html } and leaves the switch.
Extract(r) ==
    /\ pc[r] = "extract"
    /\ \E ok \in BOOLEAN :
        LET a == Extracted(req[r], PageAt(sessions[browser[r]].url)) IN
        /\ Logged(r, Call(a.call, ok, [session |-> browser[r]]))
        /\ IF ok
           THEN /\ artifact' = [artifact EXCEPT ![r] = a]
                /\ data' = IF req[r].worker = "index" /\ a.kind = "html"
                           THEN [data EXCEPT ![r] = [html |-> a.content]]
                           ELSE data
                /\ Goes(r, IF req[r].worker = "index" /\ Infers(req[r])
                           THEN "infer" ELSE "close")
           ELSE /\ UNCHANGED <<artifact, data>>
                /\ Threw(r, "extract", "extraction failed")
    /\ UNCHANGED <<req, browser, page, sessions>>
    /\ UNCHANGED <<textVars, shapeVars, feedVars>>

\* Response.json(result) at the end of the scraper.  result is undefined when
\* the reply did not parse, and JSON.stringify(undefined) is no string: the
\* Fetch standard has Response.json throw a TypeError there, other runtimes
\* send the text "undefined".  Either can be the build's behaviour.
ResponseJson(result, throws) ==
    IF result = Undefined
    THEN IF throws THEN Escaped("TypeError: value is not JSON serializable")
         ELSE Response(200, [raw |-> "undefined"])
    ELSE Response(200, result)

\* The model call of the handler: the model and the input it is given.
InferenceInput(q, a) ==
    IF q.worker = "index" /\ q.body.action = "analyze_image"
    THEN [model |-> ParsedModel(q.body),
          input |-> [prompt |-> q.body.prompt, image |-> a.content]]
    ELSE IF q.worker = "index"
    THEN [model |-> TextModel,
          input |-> [prompt |-> SummarizationPrompt(a.content)]]
    ELSE IF q.worker = "assistant"
    THEN [model |-> LinkModel, input |-> [prompt |-> LinkPrompt(a.content)]]
    ELSE [model |-> ExtractModel, input |-> [prompt |-> ExtractPrompt(a.content)]]

\* index.ts: data after env.AI.run returned aiResponse.
InferredData(q, response) ==
    IF q.body.action = "analyze_image"
    THEN [aiResponse |-> response]
    ELSE [aiResponse |-> response, modelUsed |-> TextModel]

\* The statuses with which the model service refuses a call.
UpstreamStatuses == {429, 500}

\* An error that has lost the status.
LlmCallFailedBare(status) == [message |-> "LLM call failed", status |-> 0]

\* getLLMResult: new Error(`LLM call failed ${aiUrl} ${response.status}`).
LlmCallFailed(status) == [message |-> "LLM call failed", status |-> status]

\* env.AI.run / ai.run / getLLMResult's fetch.  out is what the model service
\* does: "ok" answers with the reply `response`, "error" makes the call
\* throw, "status" answers getLLMResult's fetch with a non-ok status, on
\* which it throws (status 0 in the log: the call got no answer at all).
\* `throws` is the build's Response.json (see ResponseJson).
\* The log keeps the reply next to the call it answered.
Infer(r) ==
    /\ pc[r] = "infer"
    /\ \E out \in {"ok", "error", "status"}, response \in SampleReplies,
          throws \in BOOLEAN, status \in UpstreamStatuses :
        LET q == req[r]
            in == InferenceInput(q, artifact[r])
            op == IF q.worker = "scraper" THEN "fetch" ELSE "AI.run"
        IN
        /\ out = "status" => q.worker = "scraper"
        /\ Logged(r, Call(op, out = "ok",
                          [model |-> in.model, input |-> in.input,
                           reply |-> IF out = "ok" THEN response ELSE <<>>,
                           status |-> IF out = "ok" THEN 200
                                      ELSE IF out = "status" THEN status
                                      ELSE 0]))
        /\ IF out = "ok"
           THEN IF q.worker = "index"
                THEN /\ data' = [data EXCEPT ![r] = InferredData(q, response)]
                     /\ Goes(r, "close")
                ELSE IF q.worker = "assistant"
                THEN /\ Returned(r, Response(200, [analysis |-> response,
                                                   originalUrl |-> q.body.url]))
                     /\ UNCHANGED data
                ELSE /\ Returned(r, ResponseJson(ShapeReply(response), throws))
                     /\ UNCHANGED data
           ELSE /\ Threw(r, "infer",
                         IF out = "status" THEN LlmCallFailed(status)
                         ELSE "inference failed")
                /\ UNCHANGED data
    /\ UNCHANGED <<req, browser, page, artifact, sessions>>
    /\ UNCHANGED <<textVars, shapeVars, feedVars>>

\* A handler that closes whatever browser was launched last.
LastSession(r) == Len(sessions)

\* The session a handler closes: index.ts goes through page.browser(), the
\* other two hold the browser.
ClosedSession(r) == IF req[r].worker = "index" THEN page[r] ELSE browser[r]

\* browser.close().  index.ts then builds its success response; /analyze-link
\* is in its finally, and returns what the catch computed if it ran; the
\* scraper goes on to getLLMResult.
Close(r) ==
    /\ pc[r] = "close"
    /\ LET sid == ClosedSession(r) IN
       IF sid = 0
       THEN UNCHANGED <<sessions, log>>
       ELSE /\ sessions' = [sessions EXCEPT ![sid] =
                               [@ EXCEPT !.open = FALSE, !.closes = @ + 1]]
            /\ Logged(r, Call("close", TRUE, [session |-> sid]))
    /\ IF req[r].worker = "index"
       THEN Returned(r, Success(req[r], data[r]))
       ELSE IF pending[r] # NoResp
       THEN Returned(r, pending[r])
       ELSE Goes(r, "infer")
    /\ UNCHANGED <<req, browser, page, artifact, data>>
    /\ UNCHANGED <<textVars, shapeVars, feedVars>>

\* env.FEEDBACK_KV.put(key, JSON.stringify(feedbackData)): the store applies
\* the write, or the call throws and nothing is written.
Put(r) ==
    /\ pc[r] = "put"
    /\ \E ok \in BOOLEAN :
        LET key == FeedbackKey(req[r].body.messageId) IN
        /\ Logged(r, Call("put", ok, [key |-> key, value |-> data[r]]))
        /\ IF ok
           THEN /\ kv' = [k \in DOMAIN kv \cup {key} |->
                            IF k = key THEN data[r] ELSE kv[k]]
                /\ writes' = Append(writes,
                                    [key |-> key, value |-> data[r], by |-> r])
                /\ Returned(r, Response(200,
                        [success |-> TRUE,
                         message |-> "Feedback submitted successfully"]))
           ELSE /\ UNCHANGED <<kv, writes>>
                /\ Threw(r, "put", "KV put failed")
    /\ UNCHANGED <<req, browser, page, artifact, data, sessions, clock>>
    /\ UNCHANGED <<textVars, shapeVars>>

Idle(S) == [r \in S |-> "idle"]

InitPipe(S) ==
    /\ pc = Idle(S)
    /\ browser = [r \in S |-> 0]
    /\ page = [r \in S |-> 0]
    /\ artifact = [r \in S |-> NoArtifact]
    /\ data = [r \in S |-> NoData]
    /\ pending = [r \in S |-> NoResp]
    /\ resp = [r \in S |-> NoResp]
    /\ log = [r \in S |-> <<>>]
    /\ sessions = <<>>
    /\ kv = NoRecords /\ writes = <<>> /\ clock = 0

NoPrompt == [by |-> "none", prompt |-> <<>>]

NotShaped == [done |-> FALSE, value |-> Undefined]

Init ==
    /\ req \in [1 .. NumReqs -> Requests]
    /\ InitPipe(1 .. NumReqs)
    /\ doc = <<>> /\ built = NoPrompt
    /\ reply = <<>> /\ shaped = NotShaped

Next ==
    \/ \E r \in DOMAIN pc : Receive(r)
    \/ \E r \in DOMAIN pc : Launch(r)
    \/ \E r \in DOMAIN pc : NewPage(r)
    \/ \E r \in DOMAIN pc : SetViewport(r)
    \/ \E r \in DOMAIN pc : Goto(r)
    \/ \E r \in DOMAIN pc : WaitForSelector(r)
    \/ \E r \in DOMAIN pc : Extract(r)
    \/ \E r \in DOMAIN pc : Infer(r)
    \/ \E r \in DOMAIN pc : Close(r)

Spec == Init /\ [][Next]_vars

\* Requests in flight at the same time, their awaits interleaved by the
\* runtime: full pipelines of index.ts and of /analyze-link on different
\* pages.
ConcRequests ==
    { [worker |-> "index", method |-> "POST", path |-> "/",
       body |-> [NoBody EXCEPT !.json = TRUE, !.url = UrlA,
                               !.action = "summarize_text",
                               !.viewport = Viewport(800, 600),
                               !.waitForSelector = "#main"]],
      [worker |-> "assistant", method |-> "POST", path |-> "/analyze-link",
       body |-> [NoBody EXCEPT !.json = TRUE, !.url = UrlB]] }

InitConc ==
    /\ req \in [1 .. NumConc -> ConcRequests]
    /\ InitPipe(1 .. NumConc)
    /\ doc = <<>> /\ built = NoPrompt
    /\ reply = <<>> /\ shaped = NotShaped

SpecConc == InitConc /\ [][Next]_vars

\* The submissions clients send to /feedback.
NoFeedback ==
    [json |-> FALSE, messageId |-> Absent, feedbackType |-> Absent,
     comment |-> Absent]

FeedbackBodies ==
    { [NoFeedback EXCEPT !.json = TRUE, !.messageId = m, !.feedbackType = t] :
        m \in {"m1", "m2", Absent}, t \in {"good", Absent} }
    \cup { [json |-> TRUE, messageId |-> "m1", feedbackType |-> "bad",
            comment |-> "wrong"],
           [json |-> TRUE, messageId |-> "", feedbackType |-> "good",
            comment |-> ""] }

FeedbackRequests ==
    { [worker |-> "assistant", method |-> "POST", path |-> "/feedback",
       body |-> b] : b \in FeedbackBodies \cup {NoFeedback} }

InitFeedback ==
    /\ req \in [1 .. NumFeedback -> FeedbackRequests]
    /\ InitPipe(1 .. NumFeedback)
    /\ doc = <<>> /\ built = NoPrompt
    /\ reply = <<>> /\ shaped = NotShaped

NextFeedback ==
    \/ \E r \in DOMAIN pc : Receive(r)
    \/ \E r \in DOMAIN pc : Put(r)

SpecFeedback == InitFeedback /\ [][NextFeedback]_vars

----------------------------------------------------------------------------
(* The prompt builders on page texts around the truncation bounds. *)

DocLens ==
    (0 .. Slack)
    \cup ((SummaryLimit - Slack) .. (SummaryLimit + Slack))
    \cup ((LinkLimit - Slack) .. (LinkLimit + Slack))
    \cup {2 * LinkLimit}

\* Texts whose characters depend on their position, so that a prefix differs
\* from any other part of the text.
DocChar(i, p) == IF p = 0 THEN "." ELSE <<"a", "b", "c">>[((i * p) % 3) + 1]

DocOf(n, p) == [i \in 1 .. n |-> DocChar(i, p)]

Docs == { DocOf(n, p) : n \in DocLens, p \in {0, 1, 2} }

InitText ==
    /\ req = <<>>
    /\ InitPipe({})
    /\ doc \in Docs /\ built = NoPrompt
    /\ reply = <<>> /\ shaped = NotShaped

\* summarize_text of index.ts builds its prompt from doc.
BuildSummary ==
    /\ built = NoPrompt
    /\ built' = [by |-> "summarize_text", prompt |-> SummarizationPrompt(doc)]
    /\ UNCHANGED <<doc, pipeVars, shapeVars, feedVars>>

\* /analyze-link builds its prompt from doc.
BuildLink ==
    /\ built = NoPrompt
    /\ built' = [by |-> "/analyze-link", prompt |-> LinkPrompt(doc)]
    /\ UNCHANGED <<doc, pipeVars, shapeVars, feedVars>>

\* The scraper builds its prompt from doc.
BuildExtract ==
    /\ built = NoPrompt
    /\ built' = [by |-> "scraper", prompt |-> ExtractPrompt(doc)]
    /\ UNCHANGED <<doc, pipeVars, shapeVars, feedVars>>

NextText == BuildSummary \/ BuildLink \/ BuildExtract

SpecText == InitText /\ [][NextText]_vars

----------------------------------------------------------------------------
(* getLLMResult on replies the model service composes chunk by chunk. *)

Chunks ==
    { <<Backtick, Backtick, Backtick>>, <<"j", "s", "o", "n">>, <<" ">>,
      <<"1">>, <<"x">>, <<"{", "}">> }

RECURSIVE Flatten(_)
Flatten(chunks) ==
    IF chunks = <<>> THEN <<>> ELSE Head(chunks) \o Flatten(Tail(chunks))

InitShape ==
    /\ req = <<>>
    /\ InitPipe({})
    /\ doc = <<>> /\ built = NoPrompt
    /\ reply = <<>> /\ shaped = NotShaped

\* The model service adds a chunk to its reply.
Emit ==
    /\ ~shaped.done
    /\ Len(reply) < MaxChunks
    /\ \E c \in Chunks : reply' = Append(reply, c)
    /\ UNCHANGED <<shaped, pipeVars, textVars, feedVars>>

\* getLLMResult processes the reply.
Shape ==
    /\ ~shaped.done
    /\ shaped' = [done |-> TRUE, value |-> ShapeReply(Flatten(reply))]
    /\ UNCHANGED <<reply, pipeVars, textVars, feedVars>>

NextShape == Emit \/ Shape

SpecShape == InitShape /\ [][NextShape]_vars

----------------------------------------------------------------------------
(* Properties. *)

Reqs == DOMAIN pc

Done(r) == pc[r] = "done"

Answered(r, status) == resp[r].kind = "response" /\ resp[r].status = status

OwnSessions(r) == { i \in DOMAIN sessions : sessions[i].owner = r }

Calls(r, ops) == { k \in DOMAIN log[r] : log[r][k].op \in ops }

FailedCalls(r, ops) == { k \in Calls(r, ops) : ~log[r][k].ok }

InferenceOps == {"AI.run", "fetch"}

BrowserOps ==
    {"launch", "newPage", "setViewport", "goto", "waitForSelector",
     "screenshot", "evaluate", "content", "$eval", "close"}

IndexPost(r) == req[r].worker = "index" /\ req[r].method = "POST"

\* C1: a handler that launched a browser has, when it is done, acquired
\* exactly one session and released it exactly once, whatever later call
\* failed; no session is closed twice or left open.
C1_SessionParity ==
    /\ \A i \in DOMAIN sessions : sessions[i].closes <= 1
    /\ \A r \in Reqs :
        Done(r) /\ Calls(r, {"launch"}) # {} /\ FailedCalls(r, {"launch"}) = {}
        => /\ Cardinality(OwnSessions(r)) = 1
           /\ \A i \in OwnSessions(r) :
                ~sessions[i].open /\ sessions[i].closes = 1

NoPromptRequest(r) ==
    /\ IndexPost(r)
    /\ req[r].body.json
    /\ req[r].body.action = "analyze_image"
    /\ req[r].body.prompt = Absent

\* C2 as stated: every analyze_image request without a prompt is answered
\* 400 with a field error naming "prompt", and makes no remote call.
C2_PromptAlwaysNamed ==
    \A r \in Reqs :
        NoPromptRequest(r)
        => /\ log[r] = <<>>
           /\ Done(r) => /\ Answered(r, 400)
                         /\ "prompt" \in resp[r].body.details

\* C2 as amended: every POSTed analyze_image request without a prompt is
\* answered 400 and makes no remote call (no session, no inference); the
\* field errors name "prompt" whenever the url field is present, ill-formed
\* or not.
C2_PromptRequired ==
    \A r \in Reqs :
        NoPromptRequest(r)
        => /\ log[r] = <<>>
           /\ OwnSessions(r) = {}
           /\ Done(r) => /\ Answered(r, 400)
                         /\ req[r].body.url # Absent
                            => "prompt" \in resp[r].body.details

C2_Witness ==
    \E r \in Reqs :
        /\ NoPromptRequest(r) /\ Done(r)
        /\ req[r].body.url = NotAUrl
        /\ Answered(r, 400)
        /\ resp[r].body.details = {"url", "prompt"}

Malformed(body) ==
    \/ ~body.json
    \/ body.url = Absent
    \/ ~IsUrl(body.url)
    \/ body.action \notin Actions
    \/ body.viewport.present /\ (body.viewport.width <= 0 \/ body.viewport.height <= 0)

\* C3: a POST with a malformed or incomplete body (unparseable JSON, missing
\* or ill-formed url, unrecognized action, non-positive viewport dimension)
\* is answered 400 with a non-empty field-error list, never 500, before any
\* remote call.
C3_MalformedIs400 ==
    \A r \in Reqs :
        IndexPost(r) /\ Malformed(req[r].body)
        => /\ log[r] = <<>>
           /\ Done(r) => /\ Answered(r, 400)
                         /\ resp[r].body.details # {}

\* C4: every handler that is done has returned a response, and when one of
\* its remote calls failed that response has status 500: no exception
\* leaves a handler.
C4_FailuresBecome500 ==
    \A r \in Reqs :
        Done(r)
        => /\ resp[r].kind = "response"
           /\ FailedCalls(r, BrowserOps \cup InferenceOps) # {}
              => resp[r].status = 500

\* C5: in index.ts, when navigation fails or the awaited selector never
\* appears, the request ends with a 500 response and the browser launched for it has been
\* released by then.
C5_TimeoutReleases ==
    \A r \in Reqs :
        req[r].worker = "index" /\ Done(r) /\ FailedCalls(r, {"goto", "waitForSelector"}) # {}
        => /\ Answered(r, 500)
           /\ \A i \in OwnSessions(r) : ~sessions[i].open

\* The truncation bound documented for the handler that built the prompt.
BoundOf(by) == IF by = "summarize_text" THEN SummaryLimit ELSE LinkLimit

\* What the prompt holds after its scaffolding.
Embedded == Tail(built.prompt)

\* The characters of the page text in the prompt: what follows the
\* scaffolding, less the "..." that /analyze-link puts after a cut text.
Contribution ==
    IF built.by = "/analyze-link" /\ Len(doc) > LinkLimit
    THEN SubSeq(Embedded, 1, Len(Embedded) - Len(Ellipsis))
    ELSE Embedded

\* C6: in every handler a text longer than the documented bound contributes
\* exactly its first bound-many characters to the prompt, and a text no
\* longer than the bound is embedded unchanged.
C6_TruncatedToBound ==
    built.by # "none"
    => IF Len(doc) > BoundOf(built.by)
       THEN Contribution = SubSeq(doc, 1, BoundOf(built.by))
       ELSE Embedded = doc

\* C7: a truncated input is marked: the prompt built from a text longer than
\* the bound differs from the prompt built from the complete document that
\* consists of the kept prefix; an input that was not cut carries no mark.
C7_TruncationMarked ==
    built.by \in {"summarize_text", "/analyze-link"}
    => IF Len(doc) > BoundOf(built.by)
       THEN Embedded # SubSeq(doc, 1, BoundOf(built.by))
       ELSE Embedded = doc

\* The fenced block of a reply, read off the text: it opens at three
\* backticks, after which a json tag may stand, and closes at the next three
\* backticks behind that.
BodyStart(t, i) == i + 3 + (IF JsonTagAt(t, i + 3) THEN 4 ELSE 0)

BlockStarts(t) ==
    { i \in 1 .. Len(t) :
        FenceAt(t, i) /\ \E p \in BodyStart(t, i) .. Len(t) : FenceAt(t, p) }

FirstBlockInterior(t) ==
    LET i == CHOOSE j \in BlockStarts(t) : \A k \in BlockStarts(t) : j <= k
        ends == { p \in BodyStart(t, i) .. Len(t) : FenceAt(t, p) }
        c == CHOOSE p \in ends : \A o \in ends : p <= o
    IN  SubSeq(t, BodyStart(t, i), c - 1)

ClaimedCandidate(t) ==
    IF BlockStarts(t) # {} THEN FirstBlockInterior(t) ELSE t

\* C8: the candidate of a reply is the interior of its first fenced block,
\* whatever stands before or after the block, or the whole reply when it has
\* no block; when that candidate is valid JSON, getLLMResult returns its
\* parsed value.
C8_ShapingResolves ==
    shaped.done
    => LET c == ClaimedCandidate(Flatten(reply)) IN
       JsonParses(c) => shaped.value = JsonParse(c)

C8_Witness ==
    /\ shaped.done
    /\ reply = << <<"x">>, <<Backtick, Backtick, Backtick>>, <<"1">>,
                  <<Backtick, Backtick, Backtick>>, <<"x">> >>
    /\ shaped.value = JsonNumber(1)

\* The fetches of getLLMResult that were answered with a reply whose
\* candidate is no JSON.
UnparsedReplies(r) ==
    { k \in Calls(r, {"fetch"}) :
        log[r][k].ok /\ ~JsonParses(Candidate(log[r][k].arg.reply)) }

\* C9: when the candidate of the reply cannot be parsed, nothing is raised
\* and nothing retried: the handler made its one model call and still
\* returns a response to the client.
C9_UnresolvedStillAnswers ==
    \A r \in Reqs :
        req[r].worker = "scraper" /\ Done(r) /\ UnparsedReplies(r) # {}
        => /\ Cardinality(Calls(r, {"fetch"})) = 1
           /\ resp[r].kind = "response"

HtmlRequest(r) ==
    IndexPost(r) /\ req[r].body.json /\ req[r].body.action = "extract_html"

\* C10: an extract_html request never calls a model; its success response
\* carries the page's serialized markup whole, and metadata.modelUsed is the
\* model the caller supplied or, without one, the request default.
C10_HtmlWithoutInference ==
    \A r \in Reqs :
        HtmlRequest(r)
        => /\ Calls(r, InferenceOps) = {}
           /\ Answered(r, 200)
              => /\ resp[r].body.data = [html |-> PageAt(req[r].body.url).html]
                 /\ resp[r].body.metadata.modelUsed =
                        (IF req[r].body.model = Absent THEN DefaultModel
                         ELSE req[r].body.model)

C10_Witness ==
    \E r \in Reqs :
        /\ HtmlRequest(r) /\ Answered(r, 200)
        /\ req[r].body.model = Absent
        /\ resp[r].body.metadata.modelUsed = DefaultModel
        /\ resp[r].body.data.html = <<"<", "a", ">">>

InferringRequest(r) ==
    /\ IndexPost(r) /\ req[r].body.json
    /\ req[r].body.action \in {"analyze_image", "summarize_text"}

\* C11: the model passed to inference is the request's model identifier
\* when it carries one, and otherwise the default of the action: the image
\* default for analyze_image, a different text default for summarize_text.
C11_ModelPassed ==
    /\ DefaultModel # TextModel
    /\ \A r \in Reqs :
        InferringRequest(r)
        => \A k \in Calls(r, InferenceOps) :
              log[r][k].arg.model =
                  (IF req[r].body.model # Absent THEN req[r].body.model
                   ELSE IF req[r].body.action = "analyze_image" THEN DefaultModel
                   ELSE TextModel)

\* The calls that the model service answered with a non-success status.
RefusedCalls(r) ==
    { k \in Calls(r, InferenceOps) : log[r][k].arg.status \in UpstreamStatuses }

\* C12: no handler issues more than one inference call for a request, also
\* when the call fails or its reply does not parse; a failed call ends the
\* request with an error, and the error of a non-success answer of the model
\* service carries the upstream status.
C12_SingleInference ==
    \A r \in Reqs :
        /\ Cardinality(Calls(r, InferenceOps)) <= 1
        /\ \A k \in FailedCalls(r, InferenceOps) :
              /\ Done(r)
              /\ resp[r].kind = "exception" \/ Answered(r, 500)
        /\ \A k \in RefusedCalls(r) :
              /\ resp[r].kind = "exception"
              /\ resp[r].error.status = log[r][k].arg.status

C12_Witness ==
    \E r \in Reqs :
        /\ Done(r)
        /\ \E k \in RefusedCalls(r) : log[r][k].arg.status = 429
        /\ resp[r].kind = "exception"
        /\ resp[r].error.status = 429
        /\ Cardinality(Calls(r, InferenceOps)) = 1


\* C13: in every handler the rendering session is released after extraction
\* and before the inference call is issued: each inference call in a
\* request's log comes after a close of the request's session.
C13_ReleasedBeforeInference ==
    \A r \in Reqs :
        \A k \in Calls(r, InferenceOps) :
            \E j \in Calls(r, {"close"}) : j < k


ExtractionOps == {"screenshot", "evaluate", "content", "$eval"}

PageOps ==
    {"newPage", "setViewport", "goto", "waitForSelector"} \cup ExtractionOps

\* The place of a remote call in the pipeline; close has none.
StageRank(op) ==
    IF op = "launch" THEN 1
    ELSE IF op = "newPage" THEN 2
    ELSE IF op = "setViewport" THEN 3
    ELSE IF op = "goto" THEN 4
    ELSE IF op = "waitForSelector" THEN 5
    ELSE IF op \in ExtractionOps THEN 6
    ELSE IF op \in InferenceOps THEN 7
    ELSE 0

\* An ok call of one of `ops` before position k of the log of r.
OkBefore(r, ops, k) ==
    \E j \in Calls(r, ops) : j < k /\ log[r][j].ok

\* C14: within one request the stages come in a fixed order: acquisition
\* (launch, page, viewport if configured, navigation, selector wait if
\* configured) before extraction, extraction before inference, inference
\* before the response is shaped; the viewport is set before navigation and
\* the selector is waited for only after navigation; no page operation is
\* issued on a session after its close.
C14_StageOrder ==
    \A r \in Reqs :
        LET l == log[r] IN
        /\ \A j, k \in DOMAIN l :
              (j < k /\ StageRank(l[j].op) > 0 /\ StageRank(l[k].op) > 0)
              => StageRank(l[j].op) < StageRank(l[k].op)
        /\ \A k \in Calls(r, {"goto"}) :
              /\ OkBefore(r, {"launch"}, k) /\ OkBefore(r, {"newPage"}, k)
              /\ (req[r].worker = "index" /\ req[r].body.viewport.present)
                 => OkBefore(r, {"setViewport"}, k)
        /\ \A k \in Calls(r, {"waitForSelector"}) : OkBefore(r, {"goto"}, k)
        /\ \A k \in Calls(r, ExtractionOps) :
              /\ OkBefore(r, {"goto"}, k)
              /\ (req[r].worker = "index" /\ ~Falsy(req[r].body.waitForSelector))
                 => OkBefore(r, {"waitForSelector"}, k)
        /\ \A k \in Calls(r, InferenceOps) : OkBefore(r, ExtractionOps, k)
        /\ (l # <<>> /\ resp[r] # NoResp /\ resp[r].kind = "response"
            /\ resp[r].status = 200)
           => /\ OkBefore(r, ExtractionOps, Len(l) + 1)
              /\ Infers(req[r]) => OkBefore(r, InferenceOps, Len(l) + 1)
        /\ (pc[r] # "done") => resp[r] = NoResp
        /\ \A j, k \in DOMAIN l :
              (j < k /\ l[j].op = "close" /\ l[k].op \in PageOps)
              => l[k].arg.session # l[j].arg.session

C14_Witness ==
    \E r \in Reqs :
        /\ Done(r) /\ Answered(r, 200)
        /\ req[r].worker = "index" /\ req[r].body.action = "summarize_text"
        /\ Len(log[r]) = 8
        /\ [k \in 1 .. 8 |-> log[r][k].op] =
              <<"launch", "newPage", "setViewport", "goto", "waitForSelector",
                "evaluate", "AI.run", "close">>


\* C16: a successful response of analyze_image or summarize_text names in
\* metadata.modelUsed exactly the model that the request's inference call
\* was given.
C16_ModelUsedIsModelPassed ==
    \A r \in Reqs :
        (InferringRequest(r) /\ Answered(r, 200))
        => /\ Calls(r, {"AI.run"}) # {}
           /\ \A k \in Calls(r, {"AI.run"}) :
                 /\ log[r][k].ok
                 /\ resp[r].body.metadata.modelUsed = log[r][k].arg.model

C16_Witness ==
    \E r \in Reqs :
        /\ InferringRequest(r) /\ Answered(r, 200)
        /\ req[r].body.action = "summarize_text"
        /\ req[r].body.model \notin {Absent, TextModel}
        /\ resp[r].body.metadata.modelUsed = TextModel
        /\ \E k \in Calls(r, {"AI.run"}) : log[r][k].arg.model = TextModel


LinkRequest(r) == req[r].worker = "assistant" /\ log[r] # <<>>

\* C17: /analyze-link calls the model only after navigation and extraction
\* both succeeded (and the browser was closed); when either fails the
\* browser is closed, the answer is 500 and no model call is made; a success
\* response carries the analysis and comes only after launch, navigation,
\* extraction, close and inference all went through.
C17_LinkInferenceAfterLoad ==
    \A r \in Reqs :
        LinkRequest(r)
        => /\ \A k \in Calls(r, InferenceOps) :
                 /\ OkBefore(r, {"goto"}, k) /\ OkBefore(r, {"$eval"}, k)
                 /\ OkBefore(r, {"close"}, k)
           /\ (Done(r) /\ FailedCalls(r, {"goto", "$eval"}) # {})
              => /\ Answered(r, 500)
                 /\ \A i \in OwnSessions(r) : ~sessions[i].open
                 /\ Calls(r, {"close"}) # {}
                 /\ Calls(r, InferenceOps) = {}
           /\ Answered(r, 200)
              => /\ "analysis" \in DOMAIN resp[r].body
                 /\ FailedCalls(r, BrowserOps \cup InferenceOps) = {}
                 /\ [k \in DOMAIN log[r] |-> log[r][k].op] =
                       <<"launch", "newPage", "goto", "$eval", "close", "AI.run">>
                 /\ resp[r].body.analysis = log[r][6].arg.reply

C17_Witness ==
    \E r \in Reqs :
        /\ LinkRequest(r) /\ Done(r)
        /\ FailedCalls(r, {"$eval"}) # {}
        /\ Answered(r, 500)
        /\ Calls(r, {"close"}) # {}
        /\ Calls(r, InferenceOps) = {}

C17_WitnessSuccess ==
    \E r \in Reqs :
        /\ LinkRequest(r) /\ Answered(r, 200)
        /\ Len(log[r]) = 6


\* The artifact a request gets off the page it asked for.
OwnArtifact(r) == Extracted(req[r], PageAt(NavUrl(req[r])))

\* C15: under any interleaving of requests handled at the same time each
\* request's pipeline is private: every page call and every close in its log
\* is on a session it launched itself, a session is closed by its owner
\* only, the artifact is read off the page the request itself loaded, the
\* model input is built from it, and the response carries that artifact or
\* the reply of the request's own model call.
C15_PrivatePipeline ==
    /\ \A i \in DOMAIN sessions :
          /\ sessions[i].url \in {Absent, NavUrl(req[sessions[i].owner])}
          /\ sessions[i].closes =
                Cardinality({ k \in Calls(sessions[i].owner, {"close"}) :
                                log[sessions[i].owner][k].arg.session = i })
    /\ \A r \in Reqs :
          /\ browser[r] # 0 => sessions[browser[r]].owner = r
          /\ \A k \in Calls(r, PageOps \cup {"close"}) :
                /\ log[r][k].arg.session \in DOMAIN sessions
                /\ sessions[log[r][k].arg.session].owner = r
          /\ artifact[r] # NoArtifact => artifact[r] = OwnArtifact(r)
          /\ \A k \in Calls(r, InferenceOps) :
                log[r][k].arg.input = InferenceInput(req[r], OwnArtifact(r)).input
          /\ (Answered(r, 200) /\ req[r].worker = "index")
             => IF req[r].body.action = "extract_html"
                THEN resp[r].body.data.html = PageAt(req[r].body.url).html
                ELSE \E k \in Calls(r, InferenceOps) :
                        resp[r].body.data.aiResponse = log[r][k].arg.reply
          /\ (Answered(r, 200) /\ req[r].worker = "assistant")
             => \E k \in Calls(r, InferenceOps) :
                   resp[r].body.analysis = log[r][k].arg.reply

\* One request has finished with its own page's artifact and has closed its
\* own session while an older session of another request, on another page,
\* is still open and in use.
C15_Witness ==
    \E r1, r2 \in Reqs :
        /\ r1 # r2
        /\ NavUrl(req[r1]) # NavUrl(req[r2])
        /\ Done(r1) /\ Answered(r1, 200)
        /\ artifact[r1] = OwnArtifact(r1)
        /\ browser[r1] # 0 /\ browser[r2] # 0 /\ browser[r2] < browser[r1]
        /\ ~sessions[browser[r1]].open
        /\ pc[r2] = "extract" /\ sessions[browser[r2]].open


\* The submissions the store accepted for message id, as places in the order
\* in which it applied their puts.
AcceptedFor(id) ==
    { i \in DOMAIN writes : req[writes[i].by].body.messageId = id }

\* The record a submission asks to store, with the time its handler read.
RecordOf(r) ==
    [feedbackType |-> req[r].body.feedbackType,
     comment |-> IF req[r].body.comment \in {Absent, ""} THEN Null
                 ELSE req[r].body.comment,
     timestamp |-> data[r].timestamp]

MessageIds == { req[r].body.messageId : r \in Reqs }

C18_StoreState ==
    /\ \A r \in Reqs :
          /\ Answered(r, 200) <=> \E i \in DOMAIN writes : writes[i].by = r
          /\ (Done(r) /\ req[r].body.json
              /\ (req[r].body.messageId \in {Absent, ""}
                  \/ req[r].body.feedbackType \in {Absent, ""}))
             => /\ Answered(r, 400)
                /\ Calls(r, {"put"}) = {}
    /\ \A id \in MessageIds :
          LET key == <<"feedback:", id>>
              acc == AcceptedFor(id)
          IN IF acc = {}
             THEN key \notin DOMAIN kv
             ELSE /\ key \in DOMAIN kv
                  /\ LET last == CHOOSE i \in acc : \A j \in acc : j <= i
                     IN kv[key] = RecordOf(writes[last].by)
    /\ DOMAIN kv \subseteq { <<"feedback:", id>> : id \in MessageIds }

C18_Frame ==
    \A r \in Reqs :
        /\ (pc[r] = "idle" /\ pc'[r] # "idle") => kv' = kv
        /\ pc'[r] # pc[r]
           => \A k \in DOMAIN kv :
                 k # <<"feedback:", req[r].body.messageId>>
                 => k \in DOMAIN kv' /\ kv'[k] = kv[k]

\* C18: the feedback store holds, for each message id, under the key
\* feedback:<messageId>, exactly the record of the submission for that id
\* whose put it applied last, and nothing for an id with no accepted
\* submission; a submission without messageId or feedbackType is answered
\* 400 and writes nothing; no step of a submission changes the store before
\* its put, or the record of another message id.
C18_StoreHoldsLatest == []C18_StoreState /\ [][C18_Frame]_vars

\* Two submissions for one message id were both accepted; the store holds
\* the record of the one applied last, which differs from the other's, next
\* to nothing else.
C18_Witness ==
    /\ Len(writes) = 2
    /\ writes[1].by # writes[2].by
    /\ writes[1].key = writes[2].key
    /\ writes[1].value # writes[2].value
    /\ writes[2].value.timestamp < writes[1].value.timestamp
    /\ kv[writes[2].key] = RecordOf(writes[2].by)
    /\ \A r \in Reqs : Answered(r, 200)

\* A submission for one id is accepted while another id's record stays.
C18_WitnessOther ==
    /\ Len(writes) = 2
    /\ writes[1].key # writes[2].key
    /\ kv[writes[1].key] = writes[1].value
    /\ kv[writes[2].key] = writes[2].value

====
